---- MODULE Spec2Model ----
\* Percolation.py: the Find classes (QuickUnion, WeightedQuickUnion,
\* PathCompression, QuickFind) and the Board that opens positions of an
\* N x N grid and connects them through its finder.
\*
\* A Python list is held as a sequence: the item at Python index i is the
\* (i+1)-th item of the sequence, so roots[e] below is self.roots[e - 1],
\* the root entry of network member e.
EXTENDS Integers, Sequences, FiniteSets, TLC

MaxSize == 2

\* the most positions opened on one Board
MaxOpen == 4

\* connect is called directly on the members 1..MaxMember of a Find object
MaxMember == 4

\* the size of the PathCompression object that is given ordered connect calls
CompressSize == 3

\* and the members 1..MaxCompressMember those calls are made on
MaxCompressMember == 8

\* the most iterations a MonteCarlo object is made with
MaxIterations == 1

Strategies == {"QuickUnion", "WeightedQuickUnion", "PathCompression", "QuickFind"}

StrategyList == <<"QuickUnion", "WeightedQuickUnion", "PathCompression", "QuickFind">>

Weighted == {"WeightedQuickUnion", "PathCompression"}

VARIABLES
  boards,   \* the Board objects: object id -> Board
  finders,  \* Find objects used on their own (not owned by a Board): id -> Find
  log,      \* per object, the most recent call made on it and what it did
  sampler,  \* the MonteCarlo object and the place its running test has reached
  last      \* the last constructor or test call: its arguments, what it raised

vars == <<boards, finders, log, sampler, last>>

--------------------------------------------------------------------------
\* Python list access

\* list[i]: i is the 0-based index, a negative i counts from the end
Item(list, i) == IF i >= 0 THEN list[i + 1] ELSE list[Len(list) + i + 1]

\* list[i] = v
SetItem(list, i, v) ==
  [list EXCEPT ![IF i >= 0 THEN i + 1 ELSE Len(list) + i + 1] = v]

--------------------------------------------------------------------------
\* The Find classes. A Find object is a record; kind is its class.

Find(kind, n) ==
  [ kind      |-> kind,
    size      |-> n,
    space     |-> n * n,
    roots     |-> [num \in 1..(n * n) |-> num],
    tree_size |-> IF kind \in Weighted THEN [num \in 1..(n * n) |-> 1] ELSE <<>> ]

\* Find.find_root: follow the roots until a member is its own root
RECURSIVE Find_find_root(_, _)
Find_find_root(f, n) ==
  IF Item(f.roots, n - 1) # n THEN Find_find_root(f, Item(f.roots, n - 1)) ELSE n

\* QuickFind.find_root: the entry itself
QuickFind_find_root(f, n) == Item(f.roots, n - 1)

find_root(f, n) ==
  IF f.kind = "QuickFind" THEN QuickFind_find_root(f, n) ELSE Find_find_root(f, n)

\* Find.union (QuickUnion): the root of the first becomes the second
Find_union(f, p, q) == [f EXCEPT !.roots = SetItem(@, p - 1, q)]

\* WeightedQuickUnion.union that leaves tree_size as it was
WeightedQuickUnion_union_size_kept(f, p, q) ==
  IF Item(f.tree_size, p - 1) < Item(f.tree_size, q - 1)
  THEN Find_union(f, p, q)
  ELSE Find_union(f, q, p)

\* WeightedQuickUnion.union with the comparison turned round
WeightedQuickUnion_union_larger_under_smaller(f, p, q) ==
  IF Item(f.tree_size, p - 1) > Item(f.tree_size, q - 1)
  THEN LET g == Find_union(f, p, q) IN
       [g EXCEPT !.tree_size =
          SetItem(@, q - 1, Item(g.tree_size, q - 1) + Item(g.tree_size, p - 1))]
  ELSE LET g == Find_union(f, q, p) IN
       [g EXCEPT !.tree_size =
          SetItem(@, p - 1, Item(g.tree_size, p - 1) + Item(g.tree_size, q - 1))]

\* WeightedQuickUnion.union taking the first branch on equal sizes too
WeightedQuickUnion_union_tie_first_under_second(f, p, q) ==
  IF Item(f.tree_size, p - 1) <= Item(f.tree_size, q - 1)
  THEN LET g == Find_union(f, p, q) IN
       [g EXCEPT !.tree_size =
          SetItem(@, q - 1, Item(g.tree_size, q - 1) + Item(g.tree_size, p - 1))]
  ELSE LET g == Find_union(f, q, p) IN
       [g EXCEPT !.tree_size =
          SetItem(@, p - 1, Item(g.tree_size, p - 1) + Item(g.tree_size, q - 1))]

\* WeightedQuickUnion.union
WeightedQuickUnion_union(f, p, q) ==
  IF Item(f.tree_size, p - 1) < Item(f.tree_size, q - 1)
  THEN LET g == Find_union(f, p, q) IN
       [g EXCEPT !.tree_size =
          SetItem(@, q - 1, Item(g.tree_size, q - 1) + Item(g.tree_size, p - 1))]
  ELSE LET g == Find_union(f, q, p) IN
       [g EXCEPT !.tree_size =
          SetItem(@, p - 1, Item(g.tree_size, p - 1) + Item(g.tree_size, q - 1))]

\* QuickFind.union moving the one entry of p, as Find.union does
QuickFind_union_one_entry(f, p, q) == [f EXCEPT !.roots = SetItem(@, p - 1, q)]

\* QuickFind.union: every entry that holds p is set to q. Each pass of the
\* loop reads and writes the one entry roots[num], so the passes are independent.
QuickFind_union(f, p, q) ==
  [f EXCEPT !.roots = [num \in 1..f.space |-> IF f.roots[num] = p THEN q ELSE f.roots[num]]]

union(f, p, q) ==
  CASE f.kind = "QuickFind" -> QuickFind_union(f, p, q)
    [] f.kind \in Weighted  -> WeightedQuickUnion_union(f, p, q)
    [] OTHER                -> Find_union(f, p, q)

\* Find.connected
connected(f, a, b) == find_root(f, a) = find_root(f, b)

\* Find.connect handing a and b to union in place of their roots
Find_connect_members(f, a, b) ==
  LET p == find_root(f, a)
      q == find_root(f, b)
  IN  IF p # q THEN union(f, a, b) ELSE f

\* Find.connect that does not look up the root of a
Find_connect_first_unresolved(f, a, b) ==
  LET p == a
      q == find_root(f, b)
  IN  IF p # q THEN union(f, p, q) ELSE f

\* Find.connect that does not look up the root of b
Find_connect_second_unresolved(f, a, b) ==
  LET p == find_root(f, a)
      q == b
  IN  IF p # q THEN union(f, p, q) ELSE f

\* Find.connect
Find_connect(f, a, b) ==
  LET p == find_root(f, a)
      q == find_root(f, b)
  IN  IF p # q THEN union(f, p, q) ELSE f

\* PathCompression.path_compression
RECURSIVE path_compression(_, _, _)
path_compression(f, initial_num, root) ==
  IF Item(f.roots, initial_num - 1) # root
  THEN LET node == initial_num
           next == Item(f.roots, initial_num - 1)
       IN  path_compression([f EXCEPT !.roots = SetItem(@, node - 1, root)], next, root)
  ELSE f

\* PathCompression.connect that compresses neither path
PathCompression_connect_uncompressed(f, a, b) ==
  LET p == find_root(f, a)
      q == find_root(f, b)
  IN  IF p # q THEN union(f, p, q) ELSE f

\* PathCompression.connect that compresses both paths before it compares
\* the two roots
PathCompression_connect_compress_first(f, a, b) ==
  LET p == find_root(f, a)
      q == find_root(f, b)
      g == path_compression(path_compression(f, a, p), b, q)
  IN  IF p # q THEN union(g, p, q) ELSE g

\* PathCompression.connect
PathCompression_connect(f, a, b) ==
  LET p == find_root(f, a)
      q == find_root(f, b)
  IN  IF p # q
      THEN union(path_compression(path_compression(f, a, p), b, q), p, q)
      ELSE f

connect(f, a, b) ==
  IF f.kind = "PathCompression" THEN PathCompression_connect(f, a, b)
  ELSE Find_connect(f, a, b)

\* The members whose roots entry find_root(n) reads
RECURSIVE chain(_, _)
chain(f, n) ==
  IF f.kind # "QuickFind" /\ Item(f.roots, n - 1) # n
  THEN {n} \cup chain(f, Item(f.roots, n - 1))
  ELSE {n}

\* The members whose roots or tree_size entry connect(a, b) reads or writes
connect_indices(f, a, b) ==
  LET p == find_root(f, a)
      q == find_root(f, b)
  IN  chain(f, a) \cup chain(f, b) \cup
      IF p = q THEN {}
      ELSE CASE f.kind = "QuickFind" -> 1..f.space
             [] f.kind \in Weighted  -> {p, q}
             [] OTHER                -> {p}

--------------------------------------------------------------------------
\* The Board

Board(n, find) ==
  [ find           |-> find,
    finder         |-> IF find = "QuickFind" THEN Find("QuickFind", n)
                       ELSE IF find = "WeightedQuickUnion" THEN Find("WeightedQuickUnion", n)
                       ELSE IF find = "PathCompression" THEN Find("PathCompression", n)
                       ELSE Find("QuickUnion", n),
    size           |-> n,
    space          |-> n * n,
    board          |-> [num \in 1..(n * n) |-> 0],
    open_positions |-> 0 ]

\* An argument as Python sees it: its type and its value
IntArg(n) == [type |-> "int", val |-> n]

\* the size setter of Find that lets zero through
Find_size_zero_allowed(value) ==
  IF value.type # "int" THEN "ValueError"
  ELSE IF value.val < 0 THEN "ValueError"
  ELSE "None"

\* The size setter of Find: what it raises
Find_size(value) ==
  IF value.type # "int" THEN "ValueError"
  ELSE IF value.val <= 0 THEN "ValueError"
  ELSE "None"

\* Find.__init__ and those of its subclasses: what the call raises, the
\* function that raised, and the object with the attributes set by then
Find_init(kind, size) ==
  IF Find_size(size) # "None"
  THEN [raised |-> Find_size(size), by |-> "Find.size", self |-> <<>>]
  ELSE [raised |-> "None", by |-> "", self |-> Find(kind, size.val)]

\* The find setter of Board: what it raises
Board_find(value) ==
  IF value \notin {"QuickUnion", "WeightedQuickUnion", "QuickFind", "PathCompression"}
  THEN "ValueError"
  ELSE "None"

\* Board.__init__: the find setter runs first, then the finder is made
Board_init(size, find) ==
  IF Board_find(find) # "None"
  THEN [raised |-> Board_find(find), by |-> "Board.find", self |-> <<>>]
  ELSE LET finder == IF find = "QuickFind" THEN Find_init("QuickFind", size)
                     ELSE IF find = "WeightedQuickUnion" THEN Find_init("WeightedQuickUnion", size)
                     ELSE IF find = "PathCompression" THEN Find_init("PathCompression", size)
                     ELSE Find_init("QuickUnion", size)
       IN  IF finder.raised # "None"
           THEN [raised |-> finder.raised, by |-> finder.by, self |-> [find |-> find]]
           ELSE [raised |-> "None", by |-> "", self |-> Board(size.val, find)]

is_open(B, n) == Item(B.board, n - 1) = 1

Board_position(B, a, b) == (a - 1) * B.size + b

\* Board.__connect that looks left and right only
adjacent_same_row_only(B, a, b, position) ==
  LET left  == position - 1
      right == position + 1
  IN  (IF b # 1 THEN <<left>> ELSE <<>>) \o
      (IF b # B.size THEN <<right>> ELSE <<>>)

\* Board.__connect without the test for column 1
adjacent_no_left_test(B, a, b, position) ==
  LET above == position - B.size
      below == position + B.size
      left  == position - 1
      right == position + 1
  IN  (IF a # 1 THEN <<above>> ELSE <<>>) \o
      (IF a # B.size THEN <<below>> ELSE <<>>) \o
      <<left>> \o
      (IF b # B.size THEN <<right>> ELSE <<>>)

\* Board.__connect, the four tests: the neighbours of position that lie in
\* the grid, in the order above, below, left, right
adjacent(B, a, b, position) ==
  LET above == position - B.size
      below == position + B.size
      left  == position - 1
      right == position + 1
  IN  (IF a # 1 THEN <<above>> ELSE <<>>) \o
      (IF a # B.size THEN <<below>> ELSE <<>>) \o
      (IF b # 1 THEN <<left>> ELSE <<>>) \o
      (IF b # B.size THEN <<right>> ELSE <<>>)

\* Board.__connect, the connector calls: position is connected to each
\* neighbour of ns that is open, one after the other. idx collects the
\* members whose entries the finder touches.
RECURSIVE connect_each(_, _, _, _)
connect_each(B, acc, position, ns) ==
  IF ns = <<>> THEN acc
  ELSE IF is_open(B, Head(ns))
       THEN connect_each(B,
              [ finder |-> connect(acc.finder, position, Head(ns)),
                calls  |-> Append(acc.calls, <<position, Head(ns)>>),
                idx    |-> acc.idx \cup connect_indices(acc.finder, position, Head(ns)) ],
              position, Tail(ns))
       ELSE connect_each(B, acc, position, Tail(ns))

Board_connect(B, a, b, position) ==
  connect_each(B, [finder |-> B.finder, calls |-> <<>>, idx |-> {}],
               position, adjacent(B, a, b, position))

\* Board.open_gate counting the call before it tests the position
open_gate_counts_first(B, a, b) ==
  LET position == Board_position(B, a, b)
      B0 == [B EXCEPT !.open_positions = @ + 1]
  IN
  IF ~is_open(B0, position)
  THEN LET B1 == [B0 EXCEPT !.board = SetItem(@, position - 1, 1)]
           c  == Board_connect(B1, a, b, position)
       IN  [ board  |-> [B1 EXCEPT !.finder = c.finder],
             ret    |-> TRUE,
             probes |-> adjacent(B1, a, b, position),
             calls  |-> c.calls,
             idx    |-> {position} \cup c.idx
                          \cup {adjacent(B1, a, b, position)[k] :
                                  k \in 1..Len(adjacent(B1, a, b, position))} ]
  ELSE [ board |-> B0, ret |-> FALSE, probes |-> <<>>, calls |-> <<>>, idx |-> {position} ]

\* Board.open_gate that shuts an open position again
open_gate_toggle(B, a, b) ==
  LET position == Board_position(B, a, b) IN
  IF ~is_open(B, position)
  THEN LET B1 == [B EXCEPT !.board = SetItem(@, position - 1, 1),
                           !.open_positions = @ + 1]
           c  == Board_connect(B1, a, b, position)
       IN  [ board  |-> [B1 EXCEPT !.finder = c.finder],
             ret    |-> TRUE,
             probes |-> adjacent(B1, a, b, position),
             calls  |-> c.calls,
             idx    |-> {position} \cup c.idx
                          \cup {adjacent(B1, a, b, position)[k] :
                                  k \in 1..Len(adjacent(B1, a, b, position))} ]
  ELSE [ board  |-> [B EXCEPT !.board = SetItem(@, position - 1, 0),
                              !.open_positions = @ - 1],
         ret |-> FALSE, probes |-> <<>>, calls |-> <<>>, idx |-> {position} ]

\* Board.open_gate: the Board after the call, its return value, and what
\* the call looked at
open_gate(B, a, b) ==
  LET position == Board_position(B, a, b) IN
  IF ~is_open(B, position)
  THEN LET B1 == [B EXCEPT !.board = SetItem(@, position - 1, 1),
                           !.open_positions = @ + 1]
           c  == Board_connect(B1, a, b, position)
       IN  [ board  |-> [B1 EXCEPT !.finder = c.finder],
             ret    |-> TRUE,
             probes |-> adjacent(B1, a, b, position),
             calls  |-> c.calls,
             idx    |-> {position} \cup c.idx
                          \cup {adjacent(B1, a, b, position)[k] :
                                  k \in 1..Len(adjacent(B1, a, b, position))} ]
  ELSE [ board |-> B, ret |-> FALSE, probes |-> <<>>, calls |-> <<>>, idx |-> {position} ]

number_of_open_positions(B) == B.open_positions

\* Board.is_full without the test that n is open
is_full_no_open_test(B, n) ==
  \E i \in 0..(B.size - 1) : find_root(B.finder, n) = find_root(B.finder, i + 1)

\* Board.is_full
is_full(B, n) ==
  /\ is_open(B, n)
  /\ \E i \in 0..(B.size - 1) : find_root(B.finder, n) = find_root(B.finder, i + 1)

\* Board.percolates
percolates(B) ==
  LET top_row    == {find_root(B.finder, i + 1) : i \in 0..(B.size - 1)}
      bottom_row == {find_root(B.finder, i + 1) : i \in (B.space - B.size)..(B.space - 1)}
  IN  top_row \cap bottom_row # {}

--------------------------------------------------------------------------
\* The queries as calls: self is the object after the call, ret the value
\* returned

\* Find.find_root writing the root found into the entry of every member on
\* the way
RECURSIVE Find_find_root_compressing(_, _)
Find_find_root_compressing(f, n) ==
  IF Item(f.roots, n - 1) # n
  THEN LET r == Find_find_root_compressing(f, Item(f.roots, n - 1))
       IN  [self |-> [r.self EXCEPT !.roots = SetItem(@, n - 1, r.ret)], ret |-> r.ret]
  ELSE [self |-> f, ret |-> n]

\* Find.find_root: the loop assigns to its local n only
RECURSIVE Find_find_root_call(_, _)
Find_find_root_call(f, n) ==
  IF Item(f.roots, n - 1) # n
  THEN Find_find_root_call(f, Item(f.roots, n - 1))
  ELSE [self |-> f, ret |-> n]

QuickFind_find_root_call(f, n) == [self |-> f, ret |-> Item(f.roots, n - 1)]

find_root_call(f, n) ==
  IF f.kind = "QuickFind" THEN QuickFind_find_root_call(f, n)
  ELSE Find_find_root_call(f, n)

\* Find.connected: root(a) == root(b), a looked up first
connected_call(f, a, b) ==
  LET ra == find_root_call(f, a)
      rb == find_root_call(ra.self, b)
  IN  [self |-> rb.self, ret |-> ra.ret = rb.ret]

is_open_call(B, n) == [self |-> B, ret |-> Item(B.board, n - 1) = 1]

number_of_open_positions_call(B) == [self |-> B, ret |-> B.open_positions]

\* the loop of Board.is_full over range(size) from i on
RECURSIVE is_full_loop(_, _, _)
is_full_loop(B, root_of_position, i) ==
  IF i >= B.size THEN [self |-> B, ret |-> FALSE]
  ELSE LET r == find_root_call(B.finder, i + 1)
       IN  IF root_of_position = r.ret
           THEN [self |-> [B EXCEPT !.finder = r.self], ret |-> TRUE]
           ELSE is_full_loop([B EXCEPT !.finder = r.self], root_of_position, i + 1)

is_full_call(B, n) ==
  IF is_open_call(B, n).ret
  THEN LET r == find_root_call(B.finder, n)
       IN  is_full_loop([B EXCEPT !.finder = r.self], r.ret, 0)
  ELSE [self |-> B, ret |-> FALSE]

\* {root(i + 1) for i in range(lo, hi)}, a set local to the call
RECURSIVE roots_of_range(_, _, _)
roots_of_range(B, lo, hi) ==
  IF lo >= hi THEN [self |-> B, ret |-> {}]
  ELSE LET r    == find_root_call(B.finder, lo + 1)
           rest == roots_of_range([B EXCEPT !.finder = r.self], lo + 1, hi)
       IN  [self |-> rest.self, ret |-> {r.ret} \cup rest.ret]

percolates_call(B) ==
  LET top_row    == roots_of_range(B, 0, B.size)
      bottom_row == roots_of_range(top_row.self, B.space - B.size, B.space)
  IN  [self |-> bottom_row.self, ret |-> top_row.ret \cap bottom_row.ret # {}]

--------------------------------------------------------------------------
\* MonteCarlo

\* The iterations setter of MonteCarlo: what it raises
MonteCarlo_iterations(value) ==
  IF value.type # "int" THEN "ValueError"
  ELSE IF value.val <= 0 THEN "ValueError"
  ELSE "None"

\* MonteCarlo.__init__: size is stored as it comes, iterations goes through
\* its setter
MonteCarlo_init(size, iterations) ==
  IF MonteCarlo_iterations(iterations) # "None"
  THEN [raised |-> MonteCarlo_iterations(iterations), by |-> "MonteCarlo.iterations",
        self |-> [size |-> size]]
  ELSE [raised |-> "None", by |-> "",
        self |-> [size |-> size, iterations |-> iterations.val]]

\* MonteCarlo.__positions giving the column first
MonteCarlo_positions_column_first(size, position) ==
  LET col == IF position % size = 0 THEN size ELSE position % size
      row == (position - col + size) \div size
  IN  <<col, row>>

\* MonteCarlo.__positions without the step that turns column 0 into size
MonteCarlo_positions_column_zero(size, position) ==
  LET col == position % size
      row == (position - col + size) \div size
  IN  <<row, col>>

\* MonteCarlo.__positions: the row and column of a position
MonteCarlo_positions(size, position) ==
  LET col == IF position % size = 0 THEN size ELSE position % size
      row == (position - col + size) \div size
  IN  <<row, col>>

\* the seed check of monte_carlo_percolation_test with its second test left out
seed_policy_first_test_only(randomized, seed_value) ==
  IF randomized /\ seed_value # <<>> THEN "ValueError"
  ELSE "None"

\* The seed check that opens monte_carlo_percolation_test: what it raises.
\* seed_value is <<>> for None and <<v>> for the value v.
seed_policy(randomized, seed_value) ==
  IF randomized /\ seed_value # <<>> THEN "ValueError"
  ELSE IF ~randomized /\ seed_value = <<>> THEN "ValueError"
  ELSE "None"

\* round(open_positions / space, 4), in ten-thousandths
threshold(open_positions, space) == (20000 * open_positions + space) \div (2 * space)

--------------------------------------------------------------------------
\* Calls

\* no MonteCarlo object
NoSampler == [pc |-> "none"]

\* no constructor or test call yet
NoLast == [op |-> "none", raised |-> "None"]

NoCall ==
  [op |-> "none", a |-> 0, b |-> 0, ret |-> FALSE, probes |-> <<>>, calls |-> <<>>, idx |-> {}]

\* One Board of any size and strategy, all positions closed
Init ==
  /\ \E n \in 1..MaxSize, find \in Strategies : boards = <<Board(n, find)>>
  /\ finders = <<>>
  /\ log = <<NoCall>>
  /\ sampler = NoSampler
  /\ last = NoLast

\* board i: open_gate(a, b)
OpenGate(i, a, b) ==
  \E r \in {open_gate(boards[i], a, b)} :
    /\ r.ret => boards[i].open_positions < MaxOpen
    /\ boards' = [boards EXCEPT ![i] = r.board]
    /\ log' = [log EXCEPT ![i] = [op |-> "open_gate", a |-> a, b |-> b, ret |-> r.ret,
                                   probes |-> r.probes, calls |-> r.calls, idx |-> r.idx]]
    /\ UNCHANGED <<finders, sampler, last>>

Next ==
  \E i \in DOMAIN boards : \E a, b \in 1..boards[i].size : OpenGate(i, a, b)

Spec == Init /\ [][Next]_vars

--------------------------------------------------------------------------
\* Four Boards of one size, one per strategy, given the same calls

InitAll ==
  /\ \E n \in 1..MaxSize : boards = [i \in 1..4 |-> Board(n, StrategyList[i])]
  /\ finders = <<>>
  /\ log = [i \in 1..4 |-> NoCall]
  /\ sampler = NoSampler
  /\ last = NoLast

OpenGateAll(a, b) ==
  \E r \in {[i \in 1..4 |-> open_gate(boards[i], a, b)]} :
    /\ \A i \in 1..4 : r[i].ret => boards[i].open_positions < MaxOpen
    /\ boards' = [i \in 1..4 |-> r[i].board]
    /\ log' = [i \in 1..4 |-> [op |-> "open_gate", a |-> a, b |-> b, ret |-> r[i].ret,
                                 probes |-> r[i].probes, calls |-> r[i].calls,
                                 idx |-> r[i].idx]]
    /\ UNCHANGED <<finders, sampler, last>>

NextAll == \E a, b \in 1..boards[1].size : OpenGateAll(a, b)

SpecAll == InitAll /\ [][NextAll]_vars

--------------------------------------------------------------------------
\* A Find object of any size and class, given connect calls directly

InitFind ==
  /\ boards = <<>>
  /\ \E n \in 1..MaxSize, kind \in Strategies : finders = <<Find(kind, n)>>
  /\ log = <<>>
  /\ sampler = NoSampler
  /\ last = NoLast

\* the members connect is called on
Members(f) == {e \in 1..f.space : e <= MaxMember}

\* finder i: connect(a, b)
Connect(i, a, b) ==
  /\ finders' = [finders EXCEPT ![i] = connect(@, a, b)]
  /\ UNCHANGED <<boards, log, sampler, last>>

NextFind ==
  \E i \in DOMAIN finders : \E a, b \in Members(finders[i]) : Connect(i, a, b)

SpecFind == InitFind /\ [][NextFind]_vars

--------------------------------------------------------------------------
\* A PathCompression object, given connect(a, b) calls with a < b

InitCompress ==
  /\ boards = <<>>
  /\ finders = <<Find("PathCompression", CompressSize)>>
  /\ log = <<>>
  /\ sampler = NoSampler
  /\ last = NoLast

CompressMembers(f) == {e \in 1..f.space : e <= MaxCompressMember}

NextCompress ==
  \E i \in DOMAIN finders :
    \E a, b \in CompressMembers(finders[i]) : a < b /\ Connect(i, a, b)

SpecCompress == InitCompress /\ [][NextCompress]_vars

--------------------------------------------------------------------------
\* A caller that constructs Find and Board objects from any arguments and
\* keeps the last object of each kind that was made

\* the size arguments tried: below zero, zero, valid, and no int
SizeInputs ==
  {[type |-> t, val |-> n] : t \in {"int", "float"}, n \in (-1)..MaxSize}

\* the find arguments tried: the four names and one that is none of them
FindInputs == Strategies \cup {"BinarySearch"}

InitNew ==
  /\ boards = <<>>
  /\ finders = <<>>
  /\ log = <<>>
  /\ sampler = NoSampler
  /\ last = NoLast

\* finder = kind(size)
NewFind(kind, size) ==
  LET r == Find_init(kind, size)
  IN  /\ finders' = IF r.raised = "None" THEN <<r.self>> ELSE finders
      /\ last' = [op |-> "Find", size |-> size, find |-> kind, raised |-> r.raised,
                  by |-> r.by, attributes |-> DOMAIN r.self]
      /\ UNCHANGED <<boards, log, sampler>>

\* board = Board(size, find)
NewBoard(size, find) ==
  LET r == Board_init(size, find)
  IN  /\ boards' = IF r.raised = "None" THEN <<r.self>> ELSE boards
      /\ log' = IF r.raised = "None" THEN <<NoCall>> ELSE log
      /\ last' = [op |-> "Board", size |-> size, find |-> find, raised |-> r.raised,
                  by |-> r.by, attributes |-> DOMAIN r.self]
      /\ UNCHANGED <<finders, sampler>>

NextNew ==
  \/ \E kind \in Strategies, size \in SizeInputs : NewFind(kind, size)
  \/ \E find \in FindInputs, size \in SizeInputs : NewBoard(size, find)

SpecNew == InitNew /\ [][NextNew]_vars

--------------------------------------------------------------------------
\* A caller that constructs a MonteCarlo object from any arguments and runs
\* monte_carlo_percolation_test on it. The test is a process: sampler.pc is
\* "idle" between calls, "trial" at the head of the loop over the iterations
\* and "open" at the head of the loop over the marks. The marks are drawn as
\* they are used: sampler.drawn holds the positions taken from marks so far.

IterationInputs ==
  {[type |-> t, val |-> n] : t \in {"int", "float"}, n \in (-1)..MaxIterations}

\* None, and a value
SeedInputs == {<<>>, <<0>>}

InitMonteCarlo ==
  /\ boards = <<>>
  /\ finders = <<>>
  /\ log = <<>>
  /\ sampler = NoSampler
  /\ last = NoLast

\* sampler = MonteCarlo(size, iterations)
NewMonteCarlo(size, iterations) ==
  /\ sampler.pc \in {"none", "idle"}
  /\ LET r == MonteCarlo_init(size, iterations)
     IN  /\ sampler' = IF r.raised = "None"
                       THEN [pc |-> "idle", size |-> r.self.size, iterations |-> r.self.iterations]
                       ELSE sampler
         /\ last' = [op |-> "MonteCarlo", size |-> size, iterations |-> iterations,
                     raised |-> r.raised, by |-> r.by, attributes |-> DOMAIN r.self]
  /\ UNCHANGED <<boards, finders, log>>

\* sampler.monte_carlo_percolation_test(find, randomized, seed_value): the
\* seed check, percolation_list = [], space = self.size ** 2
PercolationTest(find, randomized, seed_value) ==
  /\ sampler.pc = "idle"
  /\ \E r \in {seed_policy(randomized, seed_value)} :
       /\ sampler' = IF r = "None"
                     THEN [pc |-> "trial", size |-> sampler.size,
                           iterations |-> sampler.iterations, find |-> find,
                           i |-> 0, percolation_list |-> <<>>, drawn |-> {}]
                     ELSE sampler
       /\ last' = [op |-> "monte_carlo_percolation_test", find |-> find,
                   randomized |-> randomized, seed_value |-> seed_value,
                   raised |-> r,
                   by |-> IF r = "None" THEN "" ELSE "monte_carlo_percolation_test",
                   boards |-> 0, opened |-> 0, percolation_list |-> <<>>]
  /\ UNCHANGED <<boards, finders, log>>

\* the sampler as it is between two calls
Idle(m) == [pc |-> "idle", size |-> m.size, iterations |-> m.iterations]

\* the head of the loop over the iterations: the test returns after the
\* last one; before that marks is sampled, which raises TypeError on a
\* space that is no int, and the Board of the trial is constructed
Trial ==
  /\ sampler.pc = "trial"
  /\ IF sampler.i = sampler.iterations
     THEN /\ sampler' = Idle(sampler)
          /\ last' = [last EXCEPT !.percolation_list = sampler.percolation_list]
          /\ boards' = <<>>
          /\ log' = <<>>
     ELSE IF sampler.size.type # "int"
     THEN /\ sampler' = Idle(sampler)
          /\ last' = [last EXCEPT !.raised = "TypeError", !.by = "range"]
          /\ boards' = <<>>
          /\ log' = <<>>
     ELSE \E r \in {Board_init(sampler.size, sampler.find)} :
            IF r.raised # "None"
            THEN /\ sampler' = Idle(sampler)
                 /\ last' = [last EXCEPT !.raised = r.raised, !.by = r.by]
                 /\ boards' = <<>>
                 /\ log' = <<>>
            ELSE /\ sampler' = [sampler EXCEPT !.pc = "open", !.drawn = {}]
                 /\ last' = [last EXCEPT !.boards = @ + 1]
                 /\ boards' = <<r.self>>
                 /\ log' = <<NoCall>>
  /\ UNCHANGED finders

\* the loop over the marks: the next mark is opened; the loop ends when the
\* Board percolates or the marks are used up, and the threshold is recorded
Open(position) ==
  /\ sampler.pc = "open"
  /\ position \in (1..boards[1].space) \ sampler.drawn
  /\ \E rc \in {MonteCarlo_positions(sampler.size.val, position)} :
       \E r \in {open_gate(boards[1], rc[1], rc[2])} :
         /\ boards' = <<r.board>>
         /\ log' = <<[op |-> "open_gate", a |-> rc[1], b |-> rc[2], ret |-> r.ret,
                      probes |-> r.probes, calls |-> r.calls, idx |-> r.idx]>>
         /\ last' = [last EXCEPT !.opened = @ + 1]
         /\ IF percolates(r.board) \/ sampler.drawn \cup {position} = 1..boards[1].space
            THEN sampler' = [sampler EXCEPT
                   !.pc = "trial",
                   !.i = @ + 1,
                   !.drawn = {},
                   !.percolation_list =
                      Append(@, threshold(r.board.open_positions, r.board.space))]
            ELSE sampler' = [sampler EXCEPT !.drawn = @ \cup {position}]
  /\ UNCHANGED finders

NextMonteCarlo ==
  \/ \E size \in SizeInputs, iterations \in IterationInputs : NewMonteCarlo(size, iterations)
  \/ \E find \in FindInputs, randomized \in BOOLEAN, seed_value \in SeedInputs :
       PercolationTest(find, randomized, seed_value)
  \/ Trial
  \/ \E position \in 1..(MaxSize * MaxSize) : Open(position)

SpecMonteCarlo == InitMonteCarlo /\ [][NextMonteCarlo]_vars

\* The interpreter goes on with a loop it is in: a step of the loop over the
\* iterations or over the marks that can be taken is taken
SpecMonteCarloFair ==
  /\ SpecMonteCarlo
  /\ WF_vars(Trial)
  /\ WF_vars(\E position \in 1..(MaxSize * MaxSize) : Open(position))

--------------------------------------------------------------------------
\* A Board of any class, given open_gate calls and queries in any order

\* the open_gate calls that open a position
MaxQueryOpen == 3

InitQuery ==
  /\ \E n \in 1..MaxSize, find \in Strategies : boards = <<Board(n, find)>>
  /\ finders = <<>>
  /\ log = <<NoCall>>
  /\ sampler = NoSampler
  /\ last = NoLast

\* the Board is left as the call leaves it, and last holds what it returned
Query(op, r) ==
  /\ boards' = <<r.self>>
  /\ last' = [op |-> op, raised |-> "None", ret |-> r.ret]
  /\ UNCHANGED <<finders, log, sampler>>

QueryOpenGate(a, b) ==
  \E r \in {open_gate(boards[1], a, b)} :
    /\ r.ret => boards[1].open_positions < MaxQueryOpen
    /\ boards' = <<r.board>>
    /\ last' = [op |-> "open_gate", raised |-> "None", ret |-> r.ret]
    /\ UNCHANGED <<finders, log, sampler>>

FindRoot(n) ==
  \E r \in {find_root_call(boards[1].finder, n)} :
    Query("find_root", [self |-> [boards[1] EXCEPT !.finder = r.self], ret |-> r.ret])

Connected(a, b) ==
  \E r \in {connected_call(boards[1].finder, a, b)} :
    Query("connected", [self |-> [boards[1] EXCEPT !.finder = r.self], ret |-> r.ret])

IsOpen(n) == Query("is_open", is_open_call(boards[1], n))

IsFull(n) == Query("is_full", is_full_call(boards[1], n))

Percolates == Query("percolates", percolates_call(boards[1]))

NumberOfOpenPositions ==
  Query("number_of_open_positions", number_of_open_positions_call(boards[1]))

NextQuery ==
  \/ \E a, b \in 1..boards[1].size : QueryOpenGate(a, b)
  \/ \E n \in 1..boards[1].space : FindRoot(n)
  \/ \E a, b \in 1..boards[1].space : Connected(a, b)
  \/ \E n \in 1..boards[1].space : IsOpen(n)
  \/ \E n \in 1..boards[1].space : IsFull(n)
  \/ Percolates
  \/ NumberOfOpenPositions

SpecQuery == InitQuery /\ [][NextQuery]_vars

--------------------------------------------------------------------------
\* The two conversions between a mark and a row and column, for a MonteCarlo
\* and a Board of one size

\* the largest size tried
MaxGrid == 5

InitPositions ==
  /\ boards = <<>>
  /\ finders = <<>>
  /\ log = <<>>
  /\ sampler = NoSampler
  /\ last = NoLast

\* MonteCarlo.__positions(position), and Board.__position of what it returns
Positions(size, position) ==
  LET ret == MonteCarlo_positions(size, position)
  IN  /\ last' = [ op |-> "positions", raised |-> "None",
                   size |-> size, position |-> position, ret |-> ret,
                   back |-> Board_position(Board(size, "QuickUnion"), ret[1], ret[2]) ]
      /\ UNCHANGED <<boards, finders, log, sampler>>

\* Board.__position(a, b), and MonteCarlo.__positions of what it returns
Position(size, a, b) ==
  LET ret == Board_position(Board(size, "QuickUnion"), a, b)
  IN  /\ last' = [ op |-> "position", raised |-> "None",
                   size |-> size, a |-> a, b |-> b, ret |-> ret,
                   back |-> MonteCarlo_positions(size, ret) ]
      /\ UNCHANGED <<boards, finders, log, sampler>>

NextPositions ==
  \/ \E size \in 1..MaxGrid : \E position \in 1..(size * size) : Positions(size, position)
  \/ \E size \in 1..MaxGrid : \E a, b \in 1..size : Position(size, a, b)

SpecPositions == InitPositions /\ [][NextPositions]_vars

--------------------------------------------------------------------------
\* Two Boards alive at once, each of any size and class; either is given
\* open_gate calls, or is dropped for a new Board of its size and class as
\* each trial of monte_carlo_percolation_test does

\* the open positions of the two Boards together
MaxPairOpen == 2

InitPair ==
  /\ \E n1, n2 \in 1..MaxSize, f1, f2 \in Strategies :
       boards = <<Board(n1, f1), Board(n2, f2)>>
  /\ finders = <<>>
  /\ log = <<>>
  /\ sampler = NoSampler
  /\ last = NoLast

\* board i: open_gate(a, b), with open_positions an attribute of the class
OpenGatePair_shared_count(i, a, b) ==
  \E r \in {open_gate(boards[i], a, b)} :
    /\ r.ret => boards[1].open_positions + boards[2].open_positions < MaxPairOpen
    /\ boards' = [j \in 1..2 |->
                    IF j = i THEN r.board
                    ELSE [boards[j] EXCEPT !.open_positions = r.board.open_positions]]
    /\ last' = [op |-> "open_gate", raised |-> "None", i |-> i]
    /\ UNCHANGED <<finders, log, sampler>>

\* board i: open_gate(a, b)
OpenGatePair(i, a, b) ==
  \E r \in {open_gate(boards[i], a, b)} :
    /\ r.ret => boards[1].open_positions + boards[2].open_positions < MaxPairOpen
    /\ boards' = [boards EXCEPT ![i] = r.board]
    /\ last' = [op |-> "open_gate", raised |-> "None", i |-> i]
    /\ UNCHANGED <<finders, log, sampler>>

\* board = Board(size, find) in place of board i
TrialBoard(i) ==
  \E r \in {Board_init(IntArg(boards[i].size), boards[i].find)} :
    /\ r.raised = "None"
    /\ boards' = [boards EXCEPT ![i] = r.self]
    /\ last' = [op |-> "Board", raised |-> "None", i |-> i]
    /\ UNCHANGED <<finders, log, sampler>>

NextPair ==
  \/ \E i \in 1..2 : \E a, b \in 1..boards[i].size : OpenGatePair(i, a, b)
  \/ \E i \in 1..2 : TrialBoard(i)

SpecPair == InitPair /\ [][NextPair]_vars

--------------------------------------------------------------------------
\* The two loops that draw a row and a column with randint until the Board
\* percolates: one iteration of MonteCarlo.percolation_test_1, and
\* Percolate.percolate with auto True

\* the methods that hold such a loop
DrawLoops == {"percolation_test_1", "percolate"}

InitDraw ==
  /\ \E n \in 1..MaxSize, find \in Strategies, method \in DrawLoops :
       /\ boards = <<Board(n, find)>>
       /\ sampler = [pc |-> "draw", method |-> method, percolation_list |-> <<>>]
  /\ finders = <<>>
  /\ log = <<>>
  /\ last = NoLast

\* percolation_test_1: the test of the while loop is true, a and b are drawn
\* and open_gate(a, b) is called
DrawTest1(a, b) ==
  /\ sampler.pc = "draw"
  /\ sampler.method = "percolation_test_1"
  /\ a \in 1..boards[1].size /\ b \in 1..boards[1].size
  /\ ~percolates(boards[1])
  /\ boards' = <<open_gate(boards[1], a, b).board>>
  /\ UNCHANGED <<finders, log, sampler, last>>

\* percolation_test_1: the test of the while loop is false, the loop is left
\* and the threshold is recorded
ExitTest1 ==
  /\ sampler.pc = "draw"
  /\ sampler.method = "percolation_test_1"
  /\ percolates(boards[1])
  /\ sampler' = [sampler EXCEPT
       !.pc = "done",
       !.percolation_list =
          Append(@, threshold(boards[1].open_positions, boards[1].space))]
  /\ UNCHANGED <<boards, finders, log, last>>

\* percolate: a and b are drawn and open_gate(a, b) is called; on False the
\* loop continues, on True percolates() is tested and the loop is left when
\* it is true
DrawPercolate(a, b) ==
  /\ sampler.pc = "draw"
  /\ sampler.method = "percolate"
  /\ a \in 1..boards[1].size /\ b \in 1..boards[1].size
  /\ \E r \in {open_gate(boards[1], a, b)} :
       /\ boards' = <<r.board>>
       /\ sampler' = IF r.ret /\ percolates(r.board)
                     THEN [sampler EXCEPT
                            !.pc = "done",
                            !.percolation_list =
                               Append(@, threshold(number_of_open_positions(r.board),
                                                   r.board.space))]
                     ELSE sampler
  /\ UNCHANGED <<finders, log, last>>

NextDraw ==
  \/ \E a, b \in 1..boards[1].size : DrawTest1(a, b)
  \/ ExitTest1
  \/ \E a, b \in 1..boards[1].size : DrawPercolate(a, b)

SpecDraw == InitDraw /\ [][NextDraw]_vars

\* Every cell is drawn again and again, and the interpreter goes on with
\* the loop
SpecDrawFair ==
  /\ SpecDraw
  /\ WF_vars(ExitTest1)
  /\ \A a, b \in 1..MaxSize : WF_vars(DrawTest1(a, b)) /\ WF_vars(DrawPercolate(a, b))

--------------------------------------------------------------------------
\* MonteCarlo.monte_carlo_full_connection_test on a sampler of a valid size:
\* in each iteration a Board is constructed and every position of a sample
\* of all positions is opened

InitFullConnection ==
  /\ boards = <<>>
  /\ finders = <<>>
  /\ log = <<>>
  /\ \E size \in 1..MaxSize, find \in Strategies, iterations \in 1..MaxIterations :
       sampler = [pc |-> "trial", size |-> IntArg(size), iterations |-> iterations,
                  find |-> find, i |-> 0, drawn |-> {}]
  /\ last = NoLast

\* the head of the loop over the iterations: the test returns after the last
\* one, before that the Board of the iteration is constructed
FullConnectionTrial ==
  /\ sampler.pc = "trial"
  /\ IF sampler.i = sampler.iterations
     THEN /\ sampler' = [sampler EXCEPT !.pc = "returned"]
          /\ UNCHANGED <<boards, log>>
     ELSE \E r \in {Board_init(sampler.size, sampler.find)} :
            /\ r.raised = "None"
            /\ sampler' = [sampler EXCEPT !.pc = "open", !.drawn = {}]
            /\ boards' = <<r.self>>
            /\ log' = <<NoCall>>
  /\ UNCHANGED <<finders, last>>

\* the loop over positions: the next position of the sample is opened; after
\* the last one the iteration is over
FullConnectionOpen(position) ==
  /\ sampler.pc = "open"
  /\ position \in (1..boards[1].space) \ sampler.drawn
  /\ \E rc \in {MonteCarlo_positions(sampler.size.val, position)} :
       \E r \in {open_gate(boards[1], rc[1], rc[2])} :
         /\ boards' = <<r.board>>
         /\ log' = <<[op |-> "open_gate", a |-> rc[1], b |-> rc[2], ret |-> r.ret,
                      probes |-> r.probes, calls |-> r.calls, idx |-> r.idx]>>
  /\ sampler' = IF sampler.drawn \cup {position} = 1..boards[1].space
                THEN [sampler EXCEPT !.pc = "trial", !.i = @ + 1, !.drawn = {}]
                ELSE [sampler EXCEPT !.drawn = @ \cup {position}]
  /\ UNCHANGED <<finders, last>>

NextFullConnection ==
  \/ FullConnectionTrial
  \/ \E position \in 1..(MaxSize * MaxSize) : FullConnectionOpen(position)

SpecFullConnection == InitFullConnection /\ [][NextFullConnection]_vars

--------------------------------------------------------------------------
\* The grid, by rows and columns

Row(B, n) == ((n - 1) \div B.size) + 1

Col(B, n) == ((n - 1) % B.size) + 1

Dist(x, y) == IF x >= y THEN x - y ELSE y - x

\* x and y are up/down/left/right neighbours
GridAdjacent(B, x, y) == Dist(Row(B, x), Row(B, y)) + Dist(Col(B, x), Col(B, y)) = 1

OpenCells(B) == {n \in 1..B.space : B.board[n] = 1}

TopRow(B) == 1..B.size

BottomRow(B) == (B.space - B.size + 1)..B.space

\* the cells that a path of open, pairwise adjacent cells reaches from S
RECURSIVE Flood(_, _)
Flood(B, S) ==
  LET T == S \cup {y \in OpenCells(B) : \E x \in S : GridAdjacent(B, x, y)}
  IN  IF T = S THEN S ELSE Flood(B, T)

\* an open cell of the top row is linked to an open cell of the bottom row
OpenChain(B) ==
  \E x \in TopRow(B) \cap OpenCells(B) : Flood(B, {x}) \cap BottomRow(B) # {}

--------------------------------------------------------------------------
\* C1: on every Board, two open positions are connected in the finder
\* exactly when a path of open, pairwise adjacent cells joins them.
C1_ConnectedIffOpenPath ==
  \A i \in DOMAIN boards :
    \A x \in OpenCells(boards[i]) :
      {y \in OpenCells(boards[i]) : connected(boards[i].finder, x, y)}
        = Flood(boards[i], {x})

\* two open cells that are no neighbours are connected through a third
C1_Witness ==
  \E i \in DOMAIN boards :
    \E x, y \in OpenCells(boards[i]) :
      /\ x # y
      /\ ~GridAdjacent(boards[i], x, y)
      /\ connected(boards[i].finder, x, y)

\* C2: percolates() is true exactly when a chain of open, pairwise adjacent
\* cells links the top row to the bottom row, the new Board included.
C2_PercolatesIffOpenChain ==
  \A i \in DOMAIN boards : percolates(boards[i]) <=> OpenChain(boards[i])

\* C3: is_full(n) is true exactly when n is open and has the root of an open
\* position of row 1; it is false for a closed position and true for an
\* open position of row 1.
C3_IsFullIffOpenAndJoinedToOpenTop ==
  \A i \in DOMAIN boards :
    \A n \in 1..boards[i].space :
      /\ is_full(boards[i], n)
           <=> /\ is_open(boards[i], n)
               /\ \E t \in TopRow(boards[i]) :
                    is_open(boards[i], t) /\ connected(boards[i].finder, n, t)
      /\ ~is_open(boards[i], n) => ~is_full(boards[i], n)
      /\ (n \in TopRow(boards[i]) /\ is_open(boards[i], n)) => is_full(boards[i], n)

\* a position below row 1 is full, another open one is not, and a position
\* of row 1 is closed
C3_Witness ==
  \E i \in DOMAIN boards :
    /\ \E n \in 1..boards[i].space : n \notin TopRow(boards[i]) /\ is_full(boards[i], n)
    /\ \E t \in TopRow(boards[i]) : ~is_open(boards[i], t)

\* C4: four Boards, one per strategy, given the same open_gate calls agree
\* on the return value, on percolates(), on the number of open positions
\* and on connected(x, y) for every pair.
C4_StrategiesAgree ==
  \A i \in DOMAIN boards :
    /\ log[i].ret = log[1].ret
    /\ percolates(boards[i]) = percolates(boards[1])
    /\ number_of_open_positions(boards[i]) = number_of_open_positions(boards[1])
    /\ \A x, y \in 1..boards[i].space :
         x < y => (connected(boards[i].finder, x, y) = connected(boards[1].finder, x, y))

\* the Boards have percolated and two of them hold different roots
C4_Witness ==
  /\ \A i \in DOMAIN boards : percolates(boards[i]) /\ log[i].ret
  /\ boards[1].size > 1
  /\ \E i, j \in DOMAIN boards : boards[i].finder.roots # boards[j].finder.roots

\* the member k steps along the roots from e
RECURSIVE Follow(_, _, _)
Follow(f, e, k) == IF k = 0 THEN e ELSE Follow(f, f.roots[e], k - 1)

\* C5: in a Find object of any class, following the roots from any member
\* reaches a member that is its own root within space steps.
C5_RootsAcyclic ==
  \A i \in DOMAIN finders :
    \A e \in 1..finders[i].space :
      \E k \in 0..finders[i].space :
        finders[i].roots[Follow(finders[i], e, k)] = Follow(finders[i], e, k)

\* a member reaches its root in two steps
C5_Witness ==
  \E i \in DOMAIN finders :
    \E e \in 1..finders[i].space :
      /\ finders[i].roots[e] # e
      /\ finders[i].roots[finders[i].roots[e]] # finders[i].roots[e]

\* the root of every member of f
Roots(f) == [e \in 1..f.space |-> find_root(f, e)]

\* C6: connect(a, b), called in any state a Find object reaches, leaves a
\* and b connected, and no connect call disconnects a pair that was connected.
C6_ConnectedStaysConnected ==
  /\ [](\A i \in DOMAIN finders :
          \A a, b \in Members(finders[i]) :
            connected(connect(finders[i], a, b), a, b))
  /\ [][\A i \in DOMAIN finders :
          \A old \in {Roots(finders[i])} :
            \A new \in {Roots(finders'[i])} :
              \A x \in 1..finders[i].space :
                \A y \in (x + 1)..finders[i].space :
                  old[x] = old[y] => new[x] = new[y]]_vars

\* three members are connected: the first union outlived the second
C6_Witness ==
  \E i \in DOMAIN finders :
    \E x, y, z \in 1..finders[i].space :
      /\ x # y /\ y # z /\ x # z
      /\ connected(finders[i], x, y)
      /\ connected(finders[i], y, z)

\* C7: once percolates() is true it is true after every further open_gate.
C7_PercolatedStaysPercolated ==
  [][\A i \in DOMAIN boards : percolates(boards[i]) => percolates(boards'[i])]_vars

\* the last call opened a cell of a Board that had percolated without it
C7_Witness ==
  \E i \in DOMAIN boards :
    /\ log[i].op = "open_gate" /\ log[i].ret
    /\ percolates(boards[i])
    /\ OpenChain([boards[i] EXCEPT
                    !.board[Board_position(boards[i], log[i].a, log[i].b)] = 0])

\* C8: open_gate(a, b) on a closed cell returns True, opens it and adds one
\* to open_positions; on an open cell it returns False and changes nothing
\* of the Board or its finder.
C8_OpenGateIdempotent ==
  [][\A i \in DOMAIN boards :
       (boards'[i] # boards[i] \/ log'[i] # log[i]) =>
         /\ log'[i].op = "open_gate"
         /\ IF is_open(boards[i], Board_position(boards[i], log'[i].a, log'[i].b))
            THEN log'[i].ret = FALSE /\ boards'[i] = boards[i]
            ELSE /\ log'[i].ret = TRUE
                 /\ is_open(boards'[i], Board_position(boards[i], log'[i].a, log'[i].b))
                 /\ boards'[i].open_positions = boards[i].open_positions + 1]_vars

\* the last call was made on an open cell and returned False
C8_Witness ==
  \E i \in DOMAIN boards :
    /\ log[i].op = "open_gate" /\ ~log[i].ret
    /\ is_open(boards[i], Board_position(boards[i], log[i].a, log[i].b))
    /\ boards[i].open_positions >= 1

\* C9: an open cell stays open and the number of open positions never
\* goes down.
C9_CellsNeverClose ==
  [][\A i \in DOMAIN boards :
       /\ \A n \in 1..boards[i].space : is_open(boards[i], n) => is_open(boards'[i], n)
       /\ number_of_open_positions(boards'[i]) >= number_of_open_positions(boards[i])]_vars

\* two cells are open and an open cell was opened again
C9_Witness ==
  \E i \in DOMAIN boards :
    /\ log[i].op = "open_gate" /\ ~log[i].ret
    /\ number_of_open_positions(boards[i]) >= 2

\* the cell of row a and column b is a corner of the grid
Corner(B, a, b) == a \in {1, B.size} /\ b \in {1, B.size}

\* C10: open_gate(a, b) with a and b in the grid uses only indexes within
\* [1, space]; it considers only neighbours in the grid, at most two for
\* a corner, never position - 1 from column 1 nor position + 1 from the
\* last column.
C10_NeighboursInGrid ==
  \A i \in DOMAIN boards :
    log[i].op = "open_gate" =>
      LET B        == boards[i]
          position == (log[i].a - 1) * B.size + log[i].b
          seen     == {log[i].probes[k] : k \in 1..Len(log[i].probes)}
      IN  /\ log[i].idx \subseteq 1..B.space
          /\ \A n \in seen : n \in 1..B.space /\ GridAdjacent(B, position, n)
          /\ \A k \in 1..Len(log[i].calls) :
               log[i].calls[k][1] = position /\ log[i].calls[k][2] \in seen
          /\ Corner(B, log[i].a, log[i].b) => Len(log[i].probes) <= 2
          /\ log[i].b = 1 => (position - 1) \notin seen
          /\ log[i].b = B.size => (position + 1) \notin seen

\* a cell of column 1 below row 1 was opened next to two open cells while
\* the last cell of the row above was open
C10_Witness ==
  \E i \in DOMAIN boards :
    /\ log[i].op = "open_gate" /\ log[i].ret
    /\ log[i].b = 1 /\ log[i].a > 1
    /\ is_open(boards[i], Board_position(boards[i], log[i].a, log[i].b) - 1)
    /\ Len(log[i].calls) = 2

\* C11: percolates() gives the result of asking is_full of every position
\* of the bottom row, on every Board of every size.
C11_PercolatesIffBottomRowFull ==
  \A i \in DOMAIN boards :
    percolates(boards[i]) <=> \E n \in BottomRow(boards[i]) : is_full(boards[i], n)

\* C11 on the Boards of size 2 and more
C11_FromSizeTwo ==
  \A i \in DOMAIN boards :
    boards[i].size >= 2 =>
      (percolates(boards[i]) <=> \E n \in BottomRow(boards[i]) : is_full(boards[i], n))

\* the members of f that are their own root
RootSet(f) == {r \in 1..f.space : f.roots[r] = r}

\* the sum of the tree_size entries of the members in S
RECURSIVE SumTreeSize(_, _)
SumTreeSize(f, S) ==
  IF S = {} THEN 0
  ELSE LET r == CHOOSE x \in S : TRUE
       IN  f.tree_size[r] + SumTreeSize(f, S \ {r})

\* C12: in a WeightedQuickUnion or PathCompression object, after any connect
\* calls, tree_size of every root is the number of members whose chain ends
\* at that root, and the tree_size of all roots add up to space.
C12_TreeSizeCountsMembers ==
  \A i \in DOMAIN finders :
    finders[i].kind \in Weighted =>
      /\ \A r \in RootSet(finders[i]) :
           finders[i].tree_size[r]
             = Cardinality({e \in 1..finders[i].space : Find_find_root(finders[i], e) = r})
      /\ SumTreeSize(finders[i], RootSet(finders[i])) = finders[i].space

\* a weighted object holds a tree of three members beside a single member
C12_Witness ==
  \E i \in DOMAIN finders :
    /\ finders[i].kind \in Weighted
    /\ \E r, t \in RootSet(finders[i]) :
         finders[i].tree_size[r] = 3 /\ finders[i].tree_size[t] = 1

\* C13: union(p, q) of a WeightedQuickUnion or PathCompression object, on two
\* different roots of unequal tree_size, puts the root of the smaller tree
\* under the root of the larger one, gives the surviving root the sum of the
\* two sizes and changes no other entry of roots.
C13_SmallerUnderLarger ==
  \A i \in DOMAIN finders :
    finders[i].kind \in Weighted =>
      \A p, q \in RootSet(finders[i]) :
        (p # q /\ finders[i].tree_size[p] # finders[i].tree_size[q]) =>
          \E g \in {union(finders[i], p, q)} :
            \E small \in {IF finders[i].tree_size[p] < finders[i].tree_size[q] THEN p ELSE q} :
              \E large \in {p, q} \ {small} :
                /\ g.roots[small] = large
                /\ g.roots[large] = large
                /\ g.tree_size[large] = finders[i].tree_size[p] + finders[i].tree_size[q]
                /\ \A e \in (1..finders[i].space) \ {small} : g.roots[e] = finders[i].roots[e]

\* a tree of three members: a tree of two and a single member were united
C13_Witness ==
  \E i \in DOMAIN finders :
    /\ finders[i].kind \in Weighted
    /\ \E r \in RootSet(finders[i]) : finders[i].tree_size[r] = 3

\* C14: union(p, q) of a weighted object on two different roots of equal
\* tree_size puts p under q: afterwards roots[p] = q and q is a root.
C14_TieFirstUnderSecond ==
  \A i \in DOMAIN finders :
    finders[i].kind \in Weighted =>
      \A p, q \in RootSet(finders[i]) :
        (p # q /\ finders[i].tree_size[p] = finders[i].tree_size[q]) =>
          \E g \in {union(finders[i], p, q)} :
            g.roots[p] = q /\ g.roots[q] = q

\* C14 as the code has it: union(p, q) of a weighted object on two different
\* roots of equal tree_size puts q under p: afterwards roots[q] = p, p is a
\* root and holds the sum of the two sizes.
C14_TieSecondUnderFirst ==
  \A i \in DOMAIN finders :
    finders[i].kind \in Weighted =>
      \A p, q \in RootSet(finders[i]) :
        (p # q /\ finders[i].tree_size[p] = finders[i].tree_size[q]) =>
          \E g \in {union(finders[i], p, q)} :
            /\ g.roots[q] = p
            /\ g.roots[p] = p
            /\ g.tree_size[p] = 2 * finders[i].tree_size[p]
            /\ \A e \in (1..finders[i].space) \ {q} : g.roots[e] = finders[i].roots[e]

\* two trees of two members were united: a root of tree_size 4 has a child
\* that has a child
C14_Witness ==
  \E i \in DOMAIN finders :
    /\ finders[i].kind \in Weighted
    /\ \E p, q \in 1..finders[i].space :
         /\ p # q
         /\ finders[i].roots[p] = p
         /\ finders[i].roots[q] = p
         /\ finders[i].tree_size[p] = 4
         /\ \E e \in 1..finders[i].space : e # q /\ finders[i].roots[e] = q

\* C16: in a QuickFind object, after any connect calls, every entry of roots
\* is its own entry, so the entry of e is what walking the chain from e
\* finds; and connect(a, b), through union(p, q), sets to q exactly the
\* entries that held p and leaves the others.
C16_QuickFindFlat ==
  \A i \in DOMAIN finders :
    finders[i].kind = "QuickFind" =>
      /\ \A e \in 1..finders[i].space :
           /\ finders[i].roots[finders[i].roots[e]] = finders[i].roots[e]
           /\ find_root(finders[i], e) = finders[i].roots[e]
           /\ Find_find_root(finders[i], e) = finders[i].roots[e]
      /\ \A a, b \in Members(finders[i]) :
           \E p \in {finders[i].roots[a]} :
             \E q \in {finders[i].roots[b]} :
               \E g \in {connect(finders[i], a, b)} :
                 \A e \in 1..finders[i].space :
                   g.roots[e] = IF finders[i].roots[e] = p THEN q ELSE finders[i].roots[e]

\* three members of a QuickFind object hold the entry of a fourth
C16_Witness ==
  \E i \in DOMAIN finders :
    /\ finders[i].kind = "QuickFind"
    /\ \E r \in 1..finders[i].space :
         Cardinality({e \in 1..finders[i].space : e # r /\ finders[i].roots[e] = r}) >= 2

\* the number of steps along roots from e to its root
RECURSIVE Steps(_, _)
Steps(f, e) == IF f.roots[e] = e THEN 0 ELSE 1 + Steps(f, f.roots[e])

\* the whole part of the base-2 logarithm of n
RECURSIVE FloorLog2(_)
FloorLog2(n) == IF n <= 1 THEN 0 ELSE 1 + FloorLog2(n \div 2)

\* C17: in a WeightedQuickUnion or PathCompression object, after any connect
\* calls, every member e is at most floor(log2(tree_size[r])) steps from its
\* root r, so at most floor(log2(space)) steps.
C17_DepthLogarithmic ==
  \A i \in DOMAIN finders :
    finders[i].kind \in Weighted =>
      \A e \in 1..finders[i].space :
        /\ Steps(finders[i], e)
             <= FloorLog2(finders[i].tree_size[Find_find_root(finders[i], e)])
        /\ Steps(finders[i], e) <= FloorLog2(finders[i].space)

\* a member is two steps from a root of tree_size 4: the bound is met
C17_Witness ==
  \E i \in DOMAIN finders :
    /\ finders[i].kind \in Weighted
    /\ \E e \in 1..finders[i].space :
         /\ Steps(finders[i], e) = 2
         /\ finders[i].tree_size[Find_find_root(finders[i], e)] = 4

\* C15: in a PathCompression object, in every reachable state and after
\* every connect(a, b), between connected members too, a is at most two
\* steps from its root.
C15_ChainAtMostTwo ==
  \A i \in DOMAIN finders :
    finders[i].kind = "PathCompression" =>
      /\ \A e \in 1..finders[i].space : Steps(finders[i], e) <= 2
      /\ \A a, b \in CompressMembers(finders[i]) :
           Steps(connect(finders[i], a, b), a) <= 2

\* C15 for the calls that unite: after connect(a, b) on members that were
\* not connected, a and b, where they were no roots, each hold the root they
\* had before the call, and each is at most two steps from its root.
C15_ChainAtMostTwoAfterUniting ==
  \A i \in DOMAIN finders :
    finders[i].kind = "PathCompression" =>
      \A a, b \in CompressMembers(finders[i]) :
        ~connected(finders[i], a, b) =>
          \E p \in {find_root(finders[i], a)} :
            \E q \in {find_root(finders[i], b)} :
              \E g \in {connect(finders[i], a, b)} :
                /\ a # p => g.roots[a] = p
                /\ b # q => g.roots[b] = q
                /\ Steps(g, a) <= 2
                /\ Steps(g, b) <= 2

\* a member two steps from its root can be connected to a member of
\* another tree, and the call brings it one step from its root
C15_Witness ==
  \E i \in DOMAIN finders :
    /\ finders[i].kind = "PathCompression"
    /\ \E a, b \in CompressMembers(finders[i]) :
         /\ ~connected(finders[i], a, b)
         /\ Steps(finders[i], a) = 2
         /\ Steps(connect(finders[i], a, b), a) = 1

\* the arguments of the last constructor call ask for a size of zero or
\* less, or for a Board with a find that is no strategy name
InvalidConfiguration(call) ==
  \/ call.size.type = "int" /\ call.size.val <= 0
  \/ call.op = "Board" /\ call.find \notin Strategies

\* C18: a Find class or Board constructed with a size of zero or less, or a
\* Board constructed with a find that is none of the four names, raises
\* ValueError; by then no roots, board or open_positions attribute is set,
\* and the caller receives no object.
C18_InvalidConfigurationRaises ==
  /\ [](last.op \in {"Find", "Board"} /\ InvalidConfiguration(last) =>
          /\ last.raised = "ValueError"
          /\ last.attributes \cap {"roots", "tree_size", "board", "open_positions", "finder"} = {})
  /\ [][(last' # last /\ InvalidConfiguration(last')) =>
          (finders' = finders /\ boards' = boards)]_vars
  /\ [](/\ \A i \in DOMAIN finders : finders[i].size > 0
        /\ \A i \in DOMAIN boards :
             boards[i].size > 0 /\ boards[i].find \in Strategies)

\* a Board call with a valid find and size zero raised in the size setter
\* of Find, while a Find object and a Board made before are still held
C18_Witness ==
  /\ last.op = "Board"
  /\ last.find \in Strategies
  /\ last.size = IntArg(0)
  /\ last.raised = "ValueError"
  /\ last.by = "Find.size"
  /\ finders # <<>>
  /\ boards # <<>>

\* C19: MonteCarlo(size, iterations) with an int size of zero or less, or
\* an int iterations of zero or less, raises ValueError in the constructor,
\* so no MonteCarlo object holds such a size or iterations.
C19_SamplerConfigurationChecked ==
  /\ (/\ last.op = "MonteCarlo"
      /\ \/ last.size.type = "int" /\ last.size.val <= 0
         \/ last.iterations.type = "int" /\ last.iterations.val <= 0)
       => last.raised = "ValueError"
  /\ sampler.pc # "none" =>
       /\ sampler.size.type = "int" => sampler.size.val > 0
       /\ sampler.iterations > 0

\* the half of C19 on iterations alone
C19_IterationsChecked ==
  /\ (/\ last.op = "MonteCarlo"
      /\ last.iterations.type = "int" /\ last.iterations.val <= 0)
       => last.raised = "ValueError" /\ last.by = "MonteCarlo.iterations"
  /\ sampler.pc # "none" => sampler.iterations > 0

\* the seed arguments are the misuse: randomized with a seed, or not
\* randomized without one
SeedMisuse(call) ==
  \/ call.randomized /\ call.seed_value # <<>>
  \/ ~call.randomized /\ call.seed_value = <<>>

\* C20: monte_carlo_percolation_test called with randomized and a seed, or
\* not randomized and no seed, raises ValueError from its own check with no
\* Board made and no position opened, and the test does not run; called
\* with randomized and no seed, or not randomized and a seed, it never
\* raises that error.
C20_SeedMisuseRejectedFirst ==
  last.op = "monte_carlo_percolation_test" =>
    IF SeedMisuse(last)
    THEN /\ last.raised = "ValueError"
         /\ last.by = "monte_carlo_percolation_test"
         /\ last.boards = 0
         /\ last.opened = 0
         /\ sampler.pc = "idle"
         /\ boards = <<>>
    ELSE last.by # "monte_carlo_percolation_test"

\* the test, called without randomized and without a seed on a MonteCarlo
\* object of size 2, raised
C20_Witness ==
  /\ last.op = "monte_carlo_percolation_test"
  /\ ~last.randomized
  /\ last.seed_value = <<>>
  /\ last.find \in Strategies
  /\ last.raised = "ValueError"
  /\ sampler.pc = "idle"
  /\ sampler.size = IntArg(2)

\* the same object ran a test called without randomized and with a seed:
\* a Board was made and three positions were opened
C20_ConsistentCallRuns ==
  /\ last.op = "monte_carlo_percolation_test"
  /\ ~last.randomized
  /\ last.seed_value # <<>>
  /\ last.raised = "None"
  /\ last.boards = 1
  /\ last.percolation_list = <<7500>>

\* B with position n closed
Closed(B, n) == [B EXCEPT !.board = [@ EXCEPT ![n] = 0]]

\* a Board as Board.__init__ leaves it
Fresh(B) ==
  /\ B.open_positions = 0
  /\ OpenCells(B) = {}
  /\ B.finder.roots = [e \in 1..B.space |-> e]

\* C21: in a trial of monte_carlo_percolation_test the marks are opened in
\* the order they are drawn, each open_gate call returns True, the trial goes
\* on while percolates() is false after an open and stops after the first
\* open that makes it true; the count recorded is the number of opens, and
\* nothing is opened on that Board afterwards.
C21_TrialStopsAtFirstPercolation ==
  /\ [](boards # <<>> /\ sampler.pc \in {"open", "trial"} =>
         /\ log[1].op = "open_gate" =>
              /\ log[1].ret
              /\ is_open(boards[1], Board_position(boards[1], log[1].a, log[1].b))
         /\ sampler.pc = "open" =>
              /\ OpenCells(boards[1]) = sampler.drawn
              /\ boards[1].open_positions = Cardinality(sampler.drawn)
              /\ sampler.drawn # {} => ~percolates(boards[1])
         /\ sampler.pc = "trial" =>
              /\ percolates(boards[1])
              /\ boards[1].open_positions = Cardinality(OpenCells(boards[1]))
              /\ sampler.percolation_list[Len(sampler.percolation_list)]
                   = threshold(boards[1].open_positions, boards[1].space)
              /\ boards[1].open_positions >= 2 =>
                   ~OpenChain(Closed(boards[1],
                        Board_position(boards[1], log[1].a, log[1].b))))
  /\ [][/\ sampler.pc = "trial" => (boards' = <<>> \/ Fresh(boards'[1]))
        /\ (sampler.pc = "open" /\ sampler'.pc = "open") =>
             /\ sampler.drawn \subseteq sampler'.drawn
             /\ Cardinality(sampler'.drawn) = Cardinality(sampler.drawn) + 1]_vars

\* the example: a 2x2 WeightedQuickUnion Board, (1,1) opened and then (2,1);
\* the trial stopped there and recorded 2/4
C21_Witness ==
  /\ sampler.pc = "trial"
  /\ sampler.find = "WeightedQuickUnion"
  /\ boards # <<>>
  /\ boards[1].size = 2
  /\ OpenCells(boards[1]) = {1, 3}
  /\ log[1].a = 2 /\ log[1].b = 1
  /\ sampler.percolation_list = <<5000>>

\* C23: on every Board every closed position e is a tree of its own in the
\* finder: roots[e] = e and no other member's roots entry is e, so no chain
\* passes through e or ends there; the root of a closed position of the top
\* or the bottom row is therefore the root of no other position.
C23_ClosedIsSingleton ==
  \A i \in DOMAIN boards :
    \A e \in (1..boards[i].space) \ OpenCells(boards[i]) :
      /\ boards[i].finder.roots[e] = e
      /\ \A x \in (1..boards[i].space) \ {e} :
           /\ boards[i].finder.roots[x] # e
           /\ e \notin chain(boards[i].finder, x)
           /\ find_root(boards[i].finder, x) # find_root(boards[i].finder, e)

\* a closed position of the bottom row below an open one, beside a tree of
\* two open positions
C23_Witness ==
  /\ boards[1].size = 2
  /\ OpenCells(boards[1]) = {1, 2}
  /\ connected(boards[1].finder, 1, 2)
  /\ log[1].op = "open_gate"

\* C24: on every Board open_positions is the number of entries of board
\* that are 1, and it lies between 0 and space.
C24_OpenPositionsCountsOnes ==
  \A i \in DOMAIN boards :
    /\ boards[i].open_positions = Cardinality(OpenCells(boards[i]))
    /\ \A n \in 1..boards[i].space : boards[i].board[n] \in {0, 1}
    /\ 0 <= boards[i].open_positions
    /\ boards[i].open_positions <= boards[i].space

\* an open_gate call on an open position returned False and left the count
C24_Witness ==
  /\ log[1].op = "open_gate"
  /\ ~log[1].ret
  /\ boards[1].open_positions = 2
  /\ Cardinality(OpenCells(boards[1])) = 2

\* C25: in a Find object of any class, connect(a, b) on two members that
\* have the same root, a = b included, leaves roots and tree_size as they
\* were; a PathCompression object compresses no path in that call.
C25_ConnectSameRootNoOp ==
  \A i \in DOMAIN finders :
    \A a, b \in Members(finders[i]) :
      connected(finders[i], a, b) => connect(finders[i], a, b) = finders[i]

\* a PathCompression object with a member two steps from its root, where a
\* compression would have changed an entry
C25_Witness ==
  /\ finders[1].kind = "PathCompression"
  /\ \E a, b \in Members(finders[1]) :
       /\ a # b
       /\ connected(finders[1], a, b)
       /\ Steps(finders[1], a) = 2
       /\ path_compression(finders[1], a, find_root(finders[1], a)) # finders[1]
       /\ connect(finders[1], a, b) = finders[1]

\* C27: in a QuickUnion object, connect(a, b) on members with different
\* roots p and q changes the roots entry of p to q and no other entry, so q
\* is the root of the merged tree.
C27_QuickUnionRepointsFirstRoot ==
  \A i \in DOMAIN finders :
    finders[i].kind = "QuickUnion" =>
      \A a, b \in Members(finders[i]) :
        LET p == find_root(finders[i], a)
            q == find_root(finders[i], b)
            g == connect(finders[i], a, b)
        IN  p # q =>
              /\ g.roots = [finders[i].roots EXCEPT ![p] = q]
              /\ g = [finders[i] EXCEPT !.roots = g.roots]
              /\ find_root(g, a) = q
              /\ find_root(g, b) = q

\* a QuickUnion object in which neither a nor b is a root and the roots
\* differ; connect(a, b) repoints the root of a
C27_Witness ==
  /\ finders[1].kind = "QuickUnion"
  /\ \E a, b \in Members(finders[1]) :
       /\ find_root(finders[1], a) \notin {a, find_root(finders[1], b)}
       /\ find_root(finders[1], b) # b
       /\ connect(finders[1], a, b).roots[find_root(finders[1], a)]
            = find_root(finders[1], b)
       /\ connect(finders[1], a, b).roots[a] = finders[1].roots[a]

C29_OrderOfOpeningIrrelevant ==
  [](\A i \in DOMAIN boards :
        \E B \in {boards[i]} :
        \E O \in {OpenCells(B)} :
          /\ B.board = [n \in 1..B.space |-> IF n \in O THEN 1 ELSE 0]
          /\ number_of_open_positions(B) = Cardinality(O)
          /\ \A x \in 1..B.space :
               \E F \in {IF x \in O THEN Flood(B, {x}) ELSE {x}} :
                 /\ {y \in 1..B.space : connected(B.finder, x, y)} = F
                 /\ is_open(B, x) = (x \in O)
                 /\ is_full(B, x) = (x \in O /\ F \cap TopRow(B) # {})
          /\ percolates(B) =
               \/ TopRow(B) \cap BottomRow(B) # {}
               \/ \E x \in TopRow(B) \cap O : Flood(B, {x}) \cap BottomRow(B) # {})

\* the cell between two opened cells was opened last and joined them
C29_Witness ==
  /\ boards[1].size = 2
  /\ OpenCells(boards[1]) = {1, 2, 4}
  /\ log[1].op = "open_gate" /\ log[1].ret
  /\ log[1].a = 1 /\ log[1].b = 2
  /\ connected(boards[1].finder, 1, 4)
  /\ percolates(boards[1])

\* the names of the six queries
QueryOps ==
  {"find_root", "connected", "is_open", "is_full", "percolates",
   "number_of_open_positions"}

\* C26: find_root, connected, is_open, is_full, percolates and
\* number_of_open_positions change nothing: after any of these calls, on a
\* Board of any class, roots, tree_size, board and open_positions are what
\* they were before it, and the value returned is the one the state gives.
C26_QueriesLeaveState ==
  /\ [](\E B \in {boards[1]} :
          /\ percolates_call(B) = [self |-> B, ret |-> percolates(B)]
          /\ number_of_open_positions_call(B)
               = [self |-> B, ret |-> number_of_open_positions(B)]
          /\ \A n \in 1..B.space :
               /\ find_root_call(B.finder, n)
                    = [self |-> B.finder, ret |-> find_root(B.finder, n)]
               /\ is_open_call(B, n) = [self |-> B, ret |-> is_open(B, n)]
               /\ is_full_call(B, n) = [self |-> B, ret |-> is_full(B, n)]
               /\ \A m \in 1..B.space :
                    connected_call(B.finder, n, m)
                      = [self |-> B.finder, ret |-> connected(B.finder, n, m)])
  /\ [][last'.op \in QueryOps =>
          /\ boards'[1].finder.roots = boards[1].finder.roots
          /\ boards'[1].finder.tree_size = boards[1].finder.tree_size
          /\ boards'[1].board = boards[1].board
          /\ boards'[1].open_positions = boards[1].open_positions
          /\ boards' = boards]_vars

\* find_root was called on a member two steps from its root and returned
\* the root
C26_Witness ==
  /\ last.op = "find_root"
  /\ boards[1].finder.kind = "QuickUnion"
  /\ \E n \in 1..boards[1].space :
       /\ Steps(boards[1].finder, n) = 2
       /\ last.ret = find_root(boards[1].finder, n)
       /\ last.ret # n

\* C30: for every size >= 1 and every position p in [1, space],
\* MonteCarlo.__positions(p) is a row and a column in [1, size] that
\* Board.__position takes back to p = (row - 1) * size + col; and every row
\* and column in [1, size] go to a position in [1, space] that __positions
\* takes back to them, so the two conversions are inverse bijections.
C30_CoordinatesRoundTrip ==
  /\ last.op = "positions" =>
       /\ last.ret[1] \in 1..last.size
       /\ last.ret[2] \in 1..last.size
       /\ last.back = last.position
       /\ (last.ret[1] - 1) * last.size + last.ret[2] = last.position
  /\ last.op = "position" =>
       /\ last.ret \in 1..(last.size * last.size)
       /\ last.ret = (last.a - 1) * last.size + last.b
       /\ last.back = <<last.a, last.b>>

\* the last position of a row but the last, where position % size is 0
C30_Witness ==
  /\ last.op = "positions"
  /\ last.size = 3
  /\ last.position = 6
  /\ last.ret = <<2, 3>>
  /\ last.back = 6

\* what the queries of Board B return
Shown(B) ==
  [ number_of_open_positions |-> number_of_open_positions(B),
    is_open    |-> [n \in 1..B.space |-> is_open(B, n)],
    is_full    |-> [n \in 1..B.space |-> is_full(B, n)],
    percolates |-> percolates(B) ]

\* C22: Boards share nothing that changes: an open_gate call on one Board
\* leaves number_of_open_positions(), is_open, is_full and percolates() of
\* the other Board, and its board, open_positions, roots and tree_size, as
\* they were; and a Board constructed for a trial has open_positions = 0 and
\* every cell closed whatever was opened on the other Board, which it leaves
\* as it was.
C22_BoardsShareNothing ==
  [][\A i \in 1..2 :
       last'.i = i =>
         /\ Shown(boards'[3 - i]) = Shown(boards[3 - i])
         /\ boards'[3 - i] = boards[3 - i]
         /\ last'.op = "Board" =>
              /\ boards'[i].open_positions = 0
              /\ \A n \in 1..boards'[i].space : ~is_open(boards'[i], n)
              /\ Fresh(boards'[i])]_vars

\* the second Board was replaced by a new one while the first has two open
\* positions and percolates
C22_Witness ==
  /\ last.op = "Board"
  /\ last.i = 2
  /\ boards[1].size = 2
  /\ boards[1].open_positions = 2
  /\ percolates(boards[1])
  /\ Fresh(boards[2])
  /\ boards[2].find = boards[1].find

\* C31: every trial of monte_carlo_percolation_test ends, after at most
\* space open_gate calls, and when it ends percolates() is true: while the
\* loop over the marks goes on at least one mark is left, so the marks are
\* never used up with percolates() still false, and a Board with every cell
\* open percolates.
C31_TrialEndsPercolated ==
  /\ [](boards # <<>> /\ sampler.pc \in {"open", "trial"} =>
          /\ sampler.pc = "open" =>
               /\ Cardinality(sampler.drawn) < boards[1].space
               /\ boards[1].open_positions = Cardinality(sampler.drawn)
          /\ sampler.pc = "trial" =>
               /\ percolates(boards[1])
               /\ boards[1].open_positions \in 1..boards[1].space
          /\ OpenCells(boards[1]) = 1..boards[1].space => percolates(boards[1]))
  /\ (sampler.pc = "open") ~> (sampler.pc = "trial")
  /\ (sampler.pc = "trial") ~> (sampler.pc = "idle")

\* the longest trial of a 2x2 Board: it ended with the third open, one mark
\* being left
C31_Witness ==
  /\ sampler.pc = "trial"
  /\ boards # <<>>
  /\ boards[1].size = 2
  /\ boards[1].open_positions = 3
  /\ percolates(boards[1])
  /\ ~OpenChain(Closed(boards[1], Board_position(boards[1], log[1].a, log[1].b)))

\* C32: the loops of percolation_test_1 and of percolate (auto) that draw a
\* row and a column with repetition are left when every cell is drawn again
\* and again: a draw of an open cell changes nothing on the Board, a draw of
\* a closed cell adds one to open_positions, and the loop is left in the
\* first state in which percolates() is true, so nothing is drawn in a state
\* in which it is true.
C32_DrawLoopExitsAtFirstPercolation ==
  /\ [](\A a, b \in 1..boards[1].size :
          \E r \in {open_gate(boards[1], a, b)} :
            IF is_open(boards[1], Board_position(boards[1], a, b))
            THEN ~r.ret /\ r.board = boards[1]
            ELSE r.ret /\ r.board.open_positions = boards[1].open_positions + 1)
  /\ [](sampler.pc = "done" => percolates(boards[1]))
  /\ [][percolates(boards[1]) => boards' = boards]_vars
  /\ <>(sampler.pc = "done")

\* C32 with the exit of percolate read from its first successful draw on:
\* percolate tests percolates() only after an open_gate call that returned
\* True
C32_DrawLoopExitsAfterADraw ==
  /\ [](\A a, b \in 1..boards[1].size :
          \E r \in {open_gate(boards[1], a, b)} :
            IF is_open(boards[1], Board_position(boards[1], a, b))
            THEN ~r.ret /\ r.board = boards[1]
            ELSE r.ret /\ r.board.open_positions = boards[1].open_positions + 1)
  /\ [](sampler.pc = "done" => percolates(boards[1]))
  /\ [][(/\ percolates(boards[1])
         /\ sampler.method = "percolate" => boards[1].open_positions > 0)
          => boards' = boards]_vars
  /\ <>(sampler.pc = "done")

\* C33: whenever percolates() is true at least size positions are open, so
\* every trial of percolation_test_1 and of monte_carlo_percolation_test
\* records at least size open positions and never a threshold of 0.
C33_PercolatedHasSizeOpen ==
  /\ percolates(boards[1]) => number_of_open_positions(boards[1]) >= boards[1].size
  /\ sampler.pc = "done" =>
       /\ boards[1].open_positions >= boards[1].size
       /\ sampler.percolation_list[1] > 0

\* C33 for the Boards of size 2 and more in the two loops that draw with
\* repetition
C33_FromSizeTwo ==
  boards[1].size >= 2 =>
    /\ percolates(boards[1]) => number_of_open_positions(boards[1]) >= boards[1].size
    /\ sampler.pc = "done" =>
         /\ boards[1].open_positions >= boards[1].size
         /\ sampler.percolation_list[1] > 0

\* C33 for the trials of monte_carlo_percolation_test, of any size
C33_SamplerTrialHasSizeOpen ==
  (boards # <<>> /\ sampler.pc = "trial") =>
    /\ percolates(boards[1])
    /\ boards[1].open_positions >= boards[1].size
    /\ sampler.percolation_list[Len(sampler.percolation_list)] > 0

\* C34: when monte_carlo_full_connection_test has opened every position of
\* a Board once, in any order and with any strategy, open_positions = space,
\* every open_gate call returned True, every position is open, and all space
\* members have one root.
C34_FullConnection ==
  /\ (boards # <<>> /\ log[1].op = "open_gate") => log[1].ret
  /\ (boards # <<>> /\ sampler.pc = "open") =>
       boards[1].open_positions = Cardinality(sampler.drawn)
  /\ (boards # <<>> /\ sampler.pc \in {"trial", "returned"}) =>
       /\ boards[1].open_positions = boards[1].space
       /\ OpenCells(boards[1]) = 1..boards[1].space
       /\ Cardinality({find_root(boards[1].finder, e) : e \in 1..boards[1].space}) = 1
       /\ \A x, y \in 1..boards[1].space : connected(boards[1].finder, x, y)

\* a 2x2 Board after the four opens of an iteration
C34_Witness ==
  /\ boards # <<>>
  /\ sampler.pc = "trial"
  /\ sampler.i = 1
  /\ boards[1].size = 2
  /\ boards[1].open_positions = 4
  /\ log[1].ret
  /\ connected(boards[1].finder, 1, 4)

====
